---- MODULE Spec2Model ----
(***************************************************************************)
(* Process supervisor of ballsdex/__main__.py: the start-up sequence of    *)
(* main(), the health-endpoint thread, the asyncio event loop with the     *)
(* main client task, auxiliary tasks, the two places that run              *)
(* shutdown_handler (the task made by bot_exception_handler and the        *)
(* 'finally' clause of main()), and the operating-system signals.          *)
(*                                                                         *)
(* asyncio (CPython 3.11) is modelled by what it does:                     *)
(*  - Task.cancel() is a request; the task sees CancelledError at its next *)
(*    step and may suppress it (cancellation is cooperative);              *)
(*  - wait_for(f, timeout): on timeout, or when the waiting task is        *)
(*    cancelled, f is cancelled and wait_for keeps waiting until f has     *)
(*    actually finished (_cancel_and_wait); a cancel arriving during that  *)
(*    wait leaves wait_for at once with CancelledError;                    *)
(*  - gather(ts..., return_exceptions=True) ends when every t finished;    *)
(*    cancelling it cancels every unfinished t;                            *)
(*  - SystemExit / KeyboardInterrupt raised in a task step leave           *)
(*    run_forever() / run_until_complete();                                *)
(*  - the interpreter joins non-daemon threads before the process ends.    *)
(* Time is abstract: a timeout may fire whenever the awaited future has    *)
(* not finished (the budgets are 10 for the drain, line 86, and 5 for the   *)
(* cancellation, line 91).                                                 *)
(***************************************************************************)
EXTENDS Naturals, FiniteSets, Sequences, TLC

\* ---------------------------------------------------------------- bounds
MaxAux == 1
MaxSignals == 2

\* ----------------------------------------------------------------- names
None == "None"
Handlers == {"S1", "S2"}
AuxName(i) == "aux" \o ToString(i)
Aux == {AuxName(i) : i \in 1..MaxAux}
CloseTask(h) == IF h = "S1" THEN "c1" ELSE "c2"
CloseTasks == {CloseTask(h) : h \in Handlers}
PlainTasks == {"bot"} \cup Aux \cup CloseTasks
\* both close tasks run the same coroutine, bot.close()
Coroutine(t) == IF t \in CloseTasks THEN "close" ELSE t

VARIABLES
    cli_flags,    \* [version, reset_settings, discord_token] of this run
    pc,           \* position of the main thread in main()
    settingsRead, \* read_settings() has returned
    flask,        \* the health-endpoint thread
    served,       \* a request has been answered by home()
    proc,         \* the operating-system process
    botBuilt,     \* BallsDexBot(cli_flags) has been constructed
    tstate,       \* state of bot_task, auxiliary tasks and close() tasks
    tresult,      \* how each finished task finished
    cancelReq,    \* tasks whose cancel() was called and not yet delivered
    stubborn,     \* the coroutines whose code suppresses CancelledError
    cbPending,    \* done-callback of bot_task is scheduled
    hpc,          \* position of each shutdown_handler coroutine
    hsig,         \* signal_type argument of each shutdown_handler
    hreason,      \* why wait_for is in _cancel_and_wait
    hpending,     \* the 'pending' list of each shutdown_handler
    hclose,       \* outcome of the close call seen by each shutdown_handler
    htimeout,     \* which budgets each shutdown_handler saw exceeded
    hcode,        \* code passed to sys.exit by each shutdown_handler
    entries,      \* number of times the body of shutdown_handler was entered
    closeCalls,   \* number of times bot.close() was invoked
    errLogged,    \* "Timeout while cancelling tasks." was logged
    signals,      \* signals delivered so far, in order of kind
    sigCount,     \* number of signals delivered
    exitCode,     \* code of the last sys.exit() (NoCode when none)
    exitFrom,     \* the function that called that sys.exit()
    mainExc,      \* exception with which main() was left
    excReport,    \* exceptions reported to the loop's exception handler
    critLogged    \* "Unhandled exception" was logged at critical level

vars == << cli_flags, pc, settingsRead, flask, served, proc, botBuilt, tstate,
           tresult, cancelReq, stubborn, cbPending, hpc, hsig, hreason,
           hpending, hclose, htimeout, hcode, entries, closeCalls, errLogged,
           signals, sigCount, exitCode, exitFrom, mainExc, excReport,
           critLogged >>

\* variables of the cooperative scheduling domain (the event loop)
loopVars == << tstate, tresult, cancelReq, cbPending, hpc, hsig, hreason,
               hpending, hclose, htimeout, hcode, entries, closeCalls,
               errLogged, botBuilt, excReport, critLogged >>
excVars == << excReport, critLogged >>
mainVars == << cli_flags, pc, settingsRead, exitCode, exitFrom, mainExc >>
flaskVars == << flask, served >>
sigVars == << signals, sigCount >>
handlerVars == << hpc, hsig, hreason, hpending, hclose, htimeout, hcode,
                  entries, closeCalls, errLogged >>

\* exit codes are kept as <<>> (no sys.exit yet) or <<code>>
NoCode == << >>

Init ==
    /\ cli_flags \in [version : BOOLEAN, reset_settings : BOOLEAN,
                      discord_token : BOOLEAN]
    /\ pc = "check_version"
    /\ settingsRead = FALSE
    /\ flask = "none"
    /\ served = FALSE
    /\ proc = "alive"
    /\ botBuilt = FALSE
    /\ tstate = [t \in PlainTasks |-> "none"]
    /\ tresult = [t \in PlainTasks |-> "none"]
    /\ cancelReq = {}
    /\ stubborn \in SUBSET {"bot", "close"}
    /\ cbPending = FALSE
    /\ hpc = [h \in Handlers |-> "none"]
    /\ hsig = [h \in Handlers |-> None]
    /\ hreason = [h \in Handlers |-> "none"]
    /\ hpending = [h \in Handlers |-> {}]
    /\ hclose = [h \in Handlers |-> "none"]
    /\ htimeout = [h \in Handlers |-> {}]
    /\ hcode = [h \in Handlers |-> NoCode]
    /\ entries = 0
    /\ closeCalls = 0
    /\ errLogged = FALSE
    /\ signals = {}
    /\ sigCount = 0
    /\ exitCode = NoCode
    /\ exitFrom = "none"
    /\ mainExc = "none"
    /\ excReport = {}
    /\ critLogged = FALSE

\* ------------------------------------------------------------ main thread
LoopRunning == proc = "alive" /\ pc \in {"run_forever", "finally"}

\* sys.exit(code) called directly in main() or reset_settings_func()
MainSysExit(code) ==
    /\ pc' = "exited"
    /\ exitCode' = <<code>>
    /\ exitFrom' = "main"
    /\ mainExc' = "SystemExit"

\* main(), lines 112-115
CheckVersion ==
    /\ proc = "alive" /\ pc = "check_version"
    /\ IF cli_flags.version
          THEN MainSysExit(0)
          ELSE pc' = "check_reset" /\ UNCHANGED << exitCode, exitFrom, mainExc >>
    /\ UNCHANGED << cli_flags, settingsRead, flaskVars, proc, loopVars,
                    stubborn, sigVars >>

\* reset_settings_func without the sys.exit(0) of line 71: main() goes on
reset_settings_func_NoExit ==
    /\ proc = "alive" /\ pc = "check_reset"
    /\ pc' = "read_settings"
    /\ UNCHANGED << cli_flags, settingsRead, exitCode, exitFrom, mainExc,
                    flaskVars, proc, loopVars, stubborn, sigVars >>

\* main(), lines 116-117, and reset_settings_func
reset_settings_func ==
    /\ proc = "alive" /\ pc = "check_reset"
    /\ IF cli_flags.reset_settings
          THEN MainSysExit(0)
          ELSE pc' = "read_settings" /\ UNCHANGED << exitCode, exitFrom, mainExc >>
    /\ UNCHANGED << cli_flags, settingsRead, flaskVars, proc, loopVars,
                    stubborn, sigVars >>

\* main(), lines 118-119
ReadSettings ==
    /\ proc = "alive" /\ pc = "read_settings"
    /\ settingsRead' = TRUE
    /\ pc' = "check_token"
    /\ UNCHANGED << cli_flags, exitCode, exitFrom, mainExc, flaskVars, proc,
                    loopVars, stubborn, sigVars >>

\* CheckToken without the test of line 120: start-up goes on without a token
CheckToken_Unchecked ==
    /\ proc = "alive" /\ pc = "check_token"
    /\ pc' = "start_flask"
    /\ UNCHANGED << cli_flags, settingsRead, exitCode, exitFrom, mainExc,
                    flaskVars, proc, loopVars, stubborn, sigVars >>

\* main(), lines 120-124
CheckToken ==
    /\ proc = "alive" /\ pc = "check_token"
    /\ IF ~cli_flags.discord_token
          THEN MainSysExit(1)
          ELSE pc' = "start_flask" /\ UNCHANGED << exitCode, exitFrom, mainExc >>
    /\ UNCHANGED << cli_flags, settingsRead, flaskVars, proc, loopVars,
                    stubborn, sigVars >>

\* main(), lines 126-127: Thread(target=run_flask).start(), a non-daemon thread
StartFlask ==
    /\ proc = "alive" /\ pc = "start_flask"
    /\ flask' = "starting"
    /\ pc' = "setup"
    /\ UNCHANGED << cli_flags, settingsRead, exitCode, exitFrom, mainExc,
                    served, proc, loopVars, stubborn, sigVars >>

\* main(), lines 129-136: construct the client, schedule bot.start_bot(),
\* attach bot_exception_handler, enter loop.run_forever()
SetupLoop ==
    /\ proc = "alive" /\ pc = "setup"
    /\ botBuilt' = TRUE
    /\ tstate' = [tstate EXCEPT !["bot"] = "run"]
    /\ pc' = "run_forever"
    /\ UNCHANGED << cli_flags, settingsRead, exitCode, exitFrom, mainExc,
                    flaskVars, proc, tresult, cancelReq, cbPending,
                    handlerVars, stubborn, excVars, sigVars >>

\* ------------------------------------------------- health-endpoint thread
\* run_flask: app.run() has bound host 0.0.0.0, port 8080 and serves forever
FlaskServe ==
    /\ proc = "alive" /\ flask = "starting"
    /\ flask' = "serving"
    /\ UNCHANGED << mainVars, served, proc, loopVars, stubborn, sigVars >>

\* a bind failure that takes the process down with it
FlaskBindFail_Fatal ==
    /\ proc = "alive" /\ flask = "starting"
    /\ flask' = "failed"
    /\ proc' = "terminated"
    /\ UNCHANGED << mainVars, served, loopVars, stubborn, sigVars >>

\* run_flask: app.run() raises (the port cannot be bound); the thread ends
FlaskBindFail ==
    /\ proc = "alive" /\ flask = "starting"
    /\ flask' = "failed"
    /\ UNCHANGED << mainVars, served, proc, loopVars, stubborn, sigVars >>

\* home served from the event loop: answered only while the client task runs
home_WhileClientRuns ==
    /\ proc = "alive" /\ flask = "serving"
    /\ LoopRunning /\ tstate["bot"] = "run"
    /\ served' = TRUE
    /\ UNCHANGED << mainVars, flask, proc, loopVars, stubborn, sigVars >>

\* home(): GET / is answered with status 200 and the fixed body
home ==
    /\ proc = "alive" /\ flask = "serving"
    /\ served' = TRUE
    /\ UNCHANGED << mainVars, flask, proc, loopVars, stubborn, sigVars >>

\* ------------------------------------------------------------ the process
\* interpreter shutdown after main() was left: threading._shutdown() joins
\* every non-daemon thread, so the process ends only when run_flask is over
ProcessEnd ==
    /\ proc = "alive" /\ pc = "exited"
    /\ flask \in {"none", "failed"}
    /\ proc' = "terminated"
    /\ UNCHANGED << mainVars, flaskVars, loopVars, stubborn, sigVars >>

\* ------------------------------------------------------- tasks of the loop
Live == {"created", "drain", "drain_cw", "term", "term_cw"}

\* asyncio.all_tasks(): the tasks of the loop that are not done
all_tasks ==
    {t \in PlainTasks : tstate[t] = "run"} \cup {h \in Handlers : hpc[h] \in Live}

TaskDone(t) ==
    IF t \in Handlers THEN hpc[t] \notin Live ELSE tstate[t] # "run"

\* bot.start_bot() returns normally
BotReturn ==
    /\ LoopRunning /\ tstate["bot"] = "run" /\ "bot" \notin cancelReq
    /\ tstate' = [tstate EXCEPT !["bot"] = "done"]
    /\ tresult' = [tresult EXCEPT !["bot"] = "returned"]
    /\ cbPending' = TRUE
    /\ UNCHANGED << mainVars, flaskVars, proc, cancelReq, handlerVars,
                    botBuilt, stubborn, excVars, sigVars >>

\* bot.start_bot() raises an unexpected exception
BotFail ==
    /\ LoopRunning /\ tstate["bot"] = "run" /\ "bot" \notin cancelReq
    /\ tstate' = [tstate EXCEPT !["bot"] = "done"]
    /\ tresult' = [tresult EXCEPT !["bot"] = "exception"]
    /\ cbPending' = TRUE
    /\ UNCHANGED << mainVars, flaskVars, proc, cancelReq, handlerVars,
                    botBuilt, stubborn, excVars, sigVars >>

\* bot.start_bot() ends by a deliberate stop: it raises SystemExit (with
\* code 0) or KeyboardInterrupt; the task keeps the exception and the
\* exception leaves the running loop: out of run_forever() into the
\* 'finally' clause of main() (line 138), or out of run_until_complete()
BotExit(exc) ==
    /\ LoopRunning /\ tstate["bot"] = "run" /\ "bot" \notin cancelReq
    /\ tstate' = [tstate EXCEPT !["bot"] = "done"]
    /\ tresult' = [tresult EXCEPT !["bot"] = exc]
    /\ cbPending' = TRUE
    /\ IF exc = "SystemExit"
          THEN exitCode' = << 0 >> /\ exitFrom' = "client"
          ELSE exitCode' = exitCode /\ exitFrom' = exitFrom
    /\ IF pc = "run_forever"
          THEN /\ pc' = "finally"
               /\ hpc' = [hpc EXCEPT !["S2"] = "created"]
               /\ mainExc' = mainExc
          ELSE /\ pc' = "exited"
               /\ hpc' = hpc
               /\ mainExc' = exc
    /\ UNCHANGED << cli_flags, settingsRead, flaskVars, proc, cancelReq, hsig,
                    hreason, hpending, hclose, htimeout, hcode, entries,
                    closeCalls, errLogged, botBuilt, stubborn, excVars,
                    sigVars >>

\* bot_exception_handler without the 'except' clause of lines 105-106:
\* whatever bot_task.result() raises starts shutdown_handler(bot)
bot_exception_handler_AnyEnd ==
    /\ LoopRunning /\ cbPending
    /\ cbPending' = FALSE
    /\ IF tresult["bot"] # "returned"
          THEN hpc' = [hpc EXCEPT !["S1"] = "created"]
          ELSE hpc' = hpc
    /\ UNCHANGED << mainVars, flaskVars, proc, tstate, tresult, cancelReq,
                    hsig, hreason, hpending, hclose, htimeout, hcode, entries,
                    closeCalls, errLogged, botBuilt, stubborn, excVars, sigVars >>

\* bot_exception_handler that takes every end of the main task but a
\* deliberate stop for a failure: a normal return starts shutdown_handler(bot)
bot_exception_handler_OnReturn ==
    /\ LoopRunning /\ cbPending
    /\ cbPending' = FALSE
    /\ IF tresult["bot"] \in {"exception", "returned"}
          THEN hpc' = [hpc EXCEPT !["S1"] = "created"]
          ELSE hpc' = hpc
    /\ UNCHANGED << mainVars, flaskVars, proc, tstate, tresult, cancelReq,
                    hsig, hreason, hpending, hclose, htimeout, hcode, entries,
                    closeCalls, errLogged, botBuilt, stubborn, excVars, sigVars >>

\* bot_exception_handler, lines 102-109: the done-callback of bot_task
bot_exception_handler ==
    /\ LoopRunning /\ cbPending
    /\ cbPending' = FALSE
    /\ IF tresult["bot"] = "exception"
          THEN hpc' = [hpc EXCEPT !["S1"] = "created"]
          ELSE hpc' = hpc
    /\ UNCHANGED << mainVars, flaskVars, proc, tstate, tresult, cancelReq,
                    hsig, hreason, hpending, hclose, htimeout, hcode, entries,
                    closeCalls, errLogged, botBuilt, stubborn, excVars, sigVars >>

\* the client spawns an auxiliary task (tasks are named in their order of
\* creation)
AuxSpawn(a) ==
    /\ LoopRunning /\ tstate["bot"] = "run" /\ tstate[a] = "none"
    /\ \A i \in 1..MaxAux :
          a = AuxName(i) => \A j \in 1..(i - 1) : tstate[AuxName(j)] # "none"
    /\ tstate' = [tstate EXCEPT ![a] = "run"]
    /\ \E suppresses \in BOOLEAN :
          stubborn' = IF suppresses THEN stubborn \cup {a} ELSE stubborn
    /\ UNCHANGED << mainVars, flaskVars, proc, tresult, cancelReq, cbPending,
                    handlerVars, botBuilt, excVars, sigVars >>

\* an auxiliary task finishes by itself
AuxFinish(a) ==
    /\ LoopRunning /\ tstate[a] = "run" /\ a \notin cancelReq
    /\ tstate' = [tstate EXCEPT ![a] = "done"]
    /\ tresult' = [tresult EXCEPT ![a] = "returned"]
    /\ UNCHANGED << mainVars, flaskVars, proc, cancelReq, cbPending,
                    handlerVars, botBuilt, stubborn, excVars, sigVars >>

\* an auxiliary task raises an exception that nobody retrieves: the loop
\* reports it to its exception handler (line 131)
AuxFail(a) ==
    /\ LoopRunning /\ tstate[a] = "run" /\ a \notin cancelReq
    /\ tstate' = [tstate EXCEPT ![a] = "done"]
    /\ tresult' = [tresult EXCEPT ![a] = "exception"]
    /\ excReport' = excReport \cup {"Exception"}
    /\ UNCHANGED << mainVars, flaskVars, proc, cancelReq, cbPending,
                    handlerVars, botBuilt, stubborn, critLogged, sigVars >>

\* global_exception_handler treating every report as the failure of the main
\* task: it starts shutdown_handler(bot) as the completion callback does
global_exception_handler_Escalates(exc) ==
    /\ LoopRunning /\ exc \in excReport
    /\ excReport' = excReport \ {exc}
    /\ critLogged' = TRUE
    /\ hpc' = [hpc EXCEPT !["S1"] = IF @ = "none" THEN "created" ELSE @]
    /\ UNCHANGED << mainVars, flaskVars, proc, tstate, tresult, cancelReq,
                    cbPending, hsig, hreason, hpending, hclose, htimeout,
                    hcode, entries, closeCalls, errLogged, botBuilt, stubborn,
                    sigVars >>

\* global_exception_handler, lines 96-100, called by the loop with a
\* reported exception: KeyboardInterrupt and SystemExit are passed over,
\* anything else is logged at critical level; nothing else happens
global_exception_handler(exc) ==
    /\ LoopRunning /\ exc \in excReport
    /\ excReport' = excReport \ {exc}
    /\ critLogged' = IF exc \in {"KeyboardInterrupt", "SystemExit"}
                        THEN critLogged
                        ELSE TRUE
    /\ UNCHANGED << mainVars, flaskVars, proc, tstate, tresult, cancelReq,
                    cbPending, handlerVars, botBuilt, stubborn, sigVars >>

\* bot.close() finishes by itself: it returns or it raises
CloseFinish(c, r) ==
    /\ LoopRunning /\ tstate[c] = "run" /\ c \notin cancelReq
    /\ tstate' = [tstate EXCEPT ![c] = "done"]
    /\ tresult' = [tresult EXCEPT ![c] = r]
    /\ UNCHANGED << mainVars, flaskVars, proc, cancelReq, cbPending,
                    handlerVars, botBuilt, stubborn, excVars, sigVars >>

\* a cancelled task that does not suppress CancelledError ends as cancelled
TaskAck(t) ==
    /\ LoopRunning /\ tstate[t] = "run" /\ t \in cancelReq
    /\ Coroutine(t) \notin stubborn
    /\ tstate' = [tstate EXCEPT ![t] = "done"]
    /\ tresult' = [tresult EXCEPT ![t] = "cancelled"]
    /\ cancelReq' = cancelReq \ {t}
    /\ cbPending' = IF t = "bot" THEN TRUE ELSE cbPending
    /\ UNCHANGED << mainVars, flaskVars, proc, handlerVars, botBuilt,
                    stubborn, excVars, sigVars >>

\* -------------------------------------------------------- shutdown_handler
\* line 94: the argument of sys.exit
ExitCodeFor(signal_type) == IF signal_type # None THEN 0 ELSE 1

\* the gather of the pending tasks (line 91) is done
GatherDone(h) == \A t \in hpending[h] : TaskDone(t)

\* FinallyBlock without the test 't is not asyncio.current_task()' of line
\* 88: the sequence cancels its own task with the others
FinallyBlock_IncludesSelf(h, outcome) ==
    LET pend == all_tasks IN
    /\ hpc' = [hpc EXCEPT ![h] = "term"]
    /\ hpending' = [hpending EXCEPT ![h] = pend]
    /\ cancelReq' = cancelReq \cup pend
    /\ hclose' = [hclose EXCEPT ![h] = outcome]
    /\ hreason' = [hreason EXCEPT ![h] = "none"]
    /\ UNCHANGED << mainVars, flaskVars, proc, tstate, tresult, cbPending,
                    hsig, htimeout, hcode, entries, closeCalls, errLogged,
                    botBuilt, stubborn, excVars, sigVars >>

\* lines 87-91: the 'finally' block up to the await: collect every other
\* unfinished task, cancel each, start waiting for them
FinallyBlock(h, outcome) ==
    LET pend == all_tasks \ {h} IN
    /\ hpc' = [hpc EXCEPT ![h] = "term"]
    /\ hpending' = [hpending EXCEPT ![h] = pend]
    /\ cancelReq' = (cancelReq \ {h}) \cup pend
    /\ hclose' = [hclose EXCEPT ![h] = outcome]
    /\ hreason' = [hreason EXCEPT ![h] = "none"]
    /\ UNCHANGED << mainVars, flaskVars, proc, tstate, tresult, cbPending,
                    hsig, htimeout, hcode, entries, closeCalls, errLogged,
                    botBuilt, stubborn, excVars, sigVars >>

\* SysExit with an exit code that reports an exceeded budget
SysExit_TimeoutCode(h, timedOut) ==
    LET code == IF htimeout[h] # {} THEN 2 ELSE ExitCodeFor(hsig[h]) IN
    /\ hcode' = [hcode EXCEPT ![h] = << code >>]
    /\ exitCode' = << code >>
    /\ exitFrom' = "shutdown_handler"
    /\ errLogged' = (errLogged \/ timedOut)
    /\ cancelReq' = cancelReq \ {h}
    /\ IF pc = "run_forever"
          THEN /\ pc' = "finally"
               /\ hpc' = [hpc EXCEPT ![h] = "exit", !["S2"] = "created"]
               /\ mainExc' = mainExc
          ELSE /\ pc' = "exited"
               /\ hpc' = [hpc EXCEPT ![h] = "exit"]
               /\ mainExc' = "SystemExit"
    /\ UNCHANGED << cli_flags, settingsRead, flaskVars, proc, tstate, tresult,
                    cbPending, hsig, hreason, hpending, hclose, htimeout,
                    entries, closeCalls, botBuilt, stubborn, excVars, sigVars >>

\* line 94: sys.exit(0 if signal_type else 1) inside the task; SystemExit
\* leaves the running loop: out of run_forever() into the 'finally' clause
\* of main() (line 138, which schedules another shutdown_handler), or out of
\* run_until_complete() and so out of main()
SysExit(h, timedOut) ==
    /\ hcode' = [hcode EXCEPT ![h] = << ExitCodeFor(hsig[h]) >>]
    /\ exitCode' = << ExitCodeFor(hsig[h]) >>
    /\ exitFrom' = "shutdown_handler"
    /\ errLogged' = (errLogged \/ timedOut)
    /\ cancelReq' = cancelReq \ {h}
    /\ IF pc = "run_forever"
          THEN /\ pc' = "finally"
               /\ hpc' = [hpc EXCEPT ![h] = "exit", !["S2"] = "created"]
               /\ mainExc' = mainExc
          ELSE /\ pc' = "exited"
               /\ hpc' = [hpc EXCEPT ![h] = "exit"]
               /\ mainExc' = "SystemExit"
    /\ UNCHANGED << cli_flags, settingsRead, flaskVars, proc, tstate, tresult,
                    cbPending, hsig, hreason, hpending, hclose, htimeout,
                    entries, closeCalls, botBuilt, stubborn, excVars, sigVars >>

\* CancelledError leaves shutdown_handler: the task ends as cancelled; when
\* it is the task of run_until_complete (line 138), main() is left with it
EndCancelled(h) ==
    /\ hpc' = [hpc EXCEPT ![h] = "cancelled"]
    /\ cancelReq' = cancelReq \ {h}
    /\ IF h = "S2"
          THEN pc' = "exited" /\ mainExc' = "CancelledError"
          ELSE pc' = pc /\ mainExc' = mainExc
    /\ UNCHANGED << cli_flags, settingsRead, exitCode, exitFrom, flaskVars,
                    proc, tstate, tresult, cbPending, hsig, hreason, hpending,
                    hclose, htimeout, hcode, entries, closeCalls, errLogged,
                    botBuilt, stubborn, excVars, sigVars >>

\* lines 82-86: first step of the coroutine: wait_for(bot.close(), timeout=10)
HandlerStart(h) ==
    /\ LoopRunning /\ hpc[h] = "created"
    /\ IF h \in cancelReq
          THEN EndCancelled(h)
          ELSE /\ hpc' = [hpc EXCEPT ![h] = "drain"]
               /\ entries' = entries + 1
               /\ closeCalls' = closeCalls + 1
               /\ tstate' = [tstate EXCEPT ![CloseTask(h)] = "run"]
               /\ UNCHANGED << mainVars, flaskVars, proc, tresult, cancelReq,
                               cbPending, hsig, hreason, hpending, hclose,
                               htimeout, hcode, errLogged, botBuilt, stubborn, excVars,
                               sigVars >>

\* line 86 returns or raises what bot.close() returned or raised
DrainReturn(h) ==
    /\ LoopRunning /\ hpc[h] = "drain" /\ tstate[CloseTask(h)] = "done"
    /\ FinallyBlock(h, tresult[CloseTask(h)])

\* line 86: the 10-unit budget elapses: wait_for cancels bot.close() and
\* waits until it has finished
DrainTimeout(h) ==
    /\ LoopRunning /\ hpc[h] = "drain" /\ tstate[CloseTask(h)] = "run"
    /\ h \notin cancelReq
    /\ hpc' = [hpc EXCEPT ![h] = "drain_cw"]
    /\ hreason' = [hreason EXCEPT ![h] = "timeout"]
    /\ htimeout' = [htimeout EXCEPT ![h] = @ \cup {"drain"}]
    /\ cancelReq' = cancelReq \cup {CloseTask(h)}
    /\ UNCHANGED << mainVars, flaskVars, proc, tstate, tresult, cbPending,
                    hsig, hpending, hclose, hcode, entries, closeCalls,
                    errLogged, botBuilt, stubborn, excVars, sigVars >>

\* line 86: the cancelled bot.close() has finished: wait_for raises
\* TimeoutError (after a timeout) or CancelledError (after a cancel)
DrainWaitDone(h) ==
    /\ LoopRunning /\ hpc[h] = "drain_cw" /\ tstate[CloseTask(h)] = "done"
    /\ FinallyBlock(h, hreason[h])

\* line 86: this task is cancelled while it waits for bot.close()
CancelInDrain(h) ==
    /\ LoopRunning /\ hpc[h] = "drain" /\ tstate[CloseTask(h)] = "run"
    /\ h \in cancelReq
    /\ hpc' = [hpc EXCEPT ![h] = "drain_cw"]
    /\ hreason' = [hreason EXCEPT ![h] = "cancelled"]
    /\ cancelReq' = (cancelReq \ {h}) \cup {CloseTask(h)}
    /\ UNCHANGED << mainVars, flaskVars, proc, tstate, tresult, cbPending,
                    hsig, hpending, hclose, htimeout, hcode, entries,
                    closeCalls, errLogged, botBuilt, stubborn, excVars, sigVars >>

\* line 86: this task is cancelled while wait_for waits for the cancelled
\* bot.close(): CancelledError leaves wait_for at once
CancelInDrainWait(h) ==
    /\ LoopRunning /\ hpc[h] = "drain_cw" /\ tstate[CloseTask(h)] = "run"
    /\ h \in cancelReq
    /\ FinallyBlock(h, "cancelled")

\* lines 91-94: every pending task finished within the budget
TermDone(h) ==
    /\ LoopRunning /\ hpc[h] = "term" /\ GatherDone(h)
    /\ SysExit(h, FALSE)

\* line 91: the 5-unit budget elapses: wait_for cancels the gather, which
\* cancels every unfinished task again, and waits until it has finished
TermTimeout(h) ==
    /\ LoopRunning /\ hpc[h] = "term" /\ ~GatherDone(h)
    /\ h \notin cancelReq
    /\ hpc' = [hpc EXCEPT ![h] = "term_cw"]
    /\ hreason' = [hreason EXCEPT ![h] = "timeout"]
    /\ htimeout' = [htimeout EXCEPT ![h] = @ \cup {"terminate"}]
    /\ cancelReq' = cancelReq \cup {t \in hpending[h] : ~TaskDone(t)}
    /\ UNCHANGED << mainVars, flaskVars, proc, tstate, tresult, cbPending,
                    hsig, hpending, hclose, hcode, entries, closeCalls,
                    errLogged, botBuilt, stubborn, excVars, sigVars >>

\* lines 91-94: the cancelled gather has finished: after a timeout
\* TimeoutError is caught, the error is logged and sys.exit is called;
\* after a cancel CancelledError is not caught and skips sys.exit
TermWaitDone(h) ==
    /\ LoopRunning /\ hpc[h] = "term_cw" /\ GatherDone(h)
    /\ h \notin cancelReq
    /\ IF hreason[h] = "timeout" THEN SysExit(h, TRUE) ELSE EndCancelled(h)

\* line 91: this task is cancelled while it waits for the gather
CancelInTerm(h) ==
    /\ LoopRunning /\ hpc[h] = "term" /\ ~GatherDone(h)
    /\ h \in cancelReq
    /\ hpc' = [hpc EXCEPT ![h] = "term_cw"]
    /\ hreason' = [hreason EXCEPT ![h] = "cancelled"]
    /\ cancelReq' = (cancelReq \ {h}) \cup {t \in hpending[h] : ~TaskDone(t)}
    /\ UNCHANGED << mainVars, flaskVars, proc, tstate, tresult, cbPending,
                    hsig, hpending, hclose, htimeout, hcode, entries,
                    closeCalls, errLogged, botBuilt, stubborn, excVars, sigVars >>

\* line 91: this task is cancelled while wait_for waits for the cancelled
\* gather: CancelledError leaves shutdown_handler, sys.exit is skipped
CancelInTermWait(h) ==
    /\ LoopRunning /\ hpc[h] = "term_cw"
    /\ h \in cancelReq
    /\ EndCancelled(h)

\* ---------------------------------------------------------------- signals
\* the interrupt signal: no handler is installed, so CPython raises
\* KeyboardInterrupt in the main thread, which leaves run_forever() for the
\* 'finally' clause (lines 135-138) or leaves run_until_complete() and main()
SigInt ==
    /\ LoopRunning /\ sigCount < MaxSignals
    /\ signals' = signals \cup {"SIGINT"}
    /\ sigCount' = sigCount + 1
    /\ IF pc = "run_forever"
          THEN /\ pc' = "finally"
               /\ hpc' = [hpc EXCEPT !["S2"] = "created"]
               /\ mainExc' = mainExc
          ELSE /\ pc' = "exited"
               /\ hpc' = hpc
               /\ mainExc' = "KeyboardInterrupt"
    /\ UNCHANGED << cli_flags, settingsRead, exitCode, exitFrom, flaskVars,
                    proc, tstate, tresult, cancelReq, cbPending, hsig, hreason,
                    hpending, hclose, htimeout, hcode, entries, closeCalls,
                    errLogged, botBuilt, stubborn, excVars >>

\* the termination signal: SIGTERM is imported (line 7) but no handler is
\* installed, so the default disposition ends the process at once
SigTerm ==
    /\ LoopRunning /\ sigCount < MaxSignals
    /\ signals' = signals \cup {"SIGTERM"}
    /\ sigCount' = sigCount + 1
    /\ proc' = "killed"
    /\ UNCHANGED << mainVars, flaskVars, loopVars, stubborn >>

\* ---------------------------------------------------------- specification
MainStep ==
    \/ CheckVersion
    \/ reset_settings_func
    \/ ReadSettings
    \/ CheckToken
    \/ StartFlask
    \/ SetupLoop

HandlerStep(h) ==
    \/ HandlerStart(h)
    \/ DrainReturn(h)
    \/ DrainTimeout(h)
    \/ DrainWaitDone(h)
    \/ CancelInDrain(h)
    \/ CancelInDrainWait(h)
    \/ TermDone(h)
    \/ TermTimeout(h)
    \/ TermWaitDone(h)
    \/ CancelInTerm(h)
    \/ CancelInTermWait(h)

Next ==
    \/ MainStep
    \/ FlaskServe
    \/ FlaskBindFail
    \/ home
    \/ ProcessEnd
    \/ BotReturn
    \/ BotFail
    \/ \E exc \in {"SystemExit", "KeyboardInterrupt"} : BotExit(exc)
    \/ bot_exception_handler
    \/ \E a \in Aux : AuxSpawn(a) \/ AuxFinish(a) \/ AuxFail(a)
    \/ \E exc \in {"Exception", "KeyboardInterrupt", "SystemExit"} :
          global_exception_handler(exc)
    \/ \E c \in CloseTasks, r \in {"returned", "exception"} : CloseFinish(c, r)
    \/ \E t \in PlainTasks : TaskAck(t)
    \/ \E h \in Handlers : HandlerStep(h)
    \/ SigInt
    \/ SigTerm

Spec == Init /\ [][Next]_vars

\* Scheduling: the main thread, the flask thread and the interpreter make
\* progress; the loop runs every ready callback and task step; time passes,
\* so a budget that can elapse does.  Nothing obliges the client to stop or
\* fail, a task to end by itself, a request or a signal to arrive, or a task
\* that suppresses CancelledError to end.
Fairness ==
    /\ WF_vars(MainStep)
    /\ WF_vars(FlaskServe \/ FlaskBindFail)
    /\ WF_vars(ProcessEnd)
    /\ WF_vars(bot_exception_handler)
    /\ \A t \in PlainTasks : WF_vars(TaskAck(t))
    /\ \A h \in Handlers : WF_vars(HandlerStep(h))

FairSpec == Spec /\ Fairness

\* ------------------------------------------------------------ vocabulary
Entered(h) == tstate[CloseTask(h)] # "none"
SignalSeen == signals # {}
MainLeft == pc = "exited"
BotFailed == tresult["bot"] = "exception"

\* ----------------------------------------------------------------- claims

\* C1: shutdown is idempotent: shutdown_handler is entered at most once and
\* bot.close() is invoked at most once in a run, in particular in a run
\* without any signal, where the only triggers are the failure of the main
\* task and the 'finally' clause of main().
C1_ShutdownOnce == (signals = {}) => (entries <= 1 /\ closeCalls <= 1)

\* C2: when main() has been left after one interrupt or termination signal
\* was delivered to the running client, it was left by sys.exit(0).
C2_SignalExitsZero ==
    (sigCount = 1 /\ MainLeft) => (mainExc = "SystemExit" /\ exitCode = << 0 >>)

\* C3: after the main client task failed with an unexpected exception, the
\* shutdown runs to its end and main() is left by sys.exit(1) (unless a
\* signal arrives in between).
C3_FailureExitsOne ==
    BotFailed ~> (SignalSeen
                  \/ (MainLeft /\ mainExc = "SystemExit" /\ exitCode = << 1 >>))

\* C4: once shutdown_handler has requested exit and main() has been left,
\* the process eventually ends.
C4_ProcessEnds ==
    (MainLeft /\ exitFrom = "shutdown_handler") ~> (proc # "alive")

\* C5: once the drain budget has elapsed in a shutdown sequence, that
\* sequence goes on to cancel the remaining tasks (unless the loop has been
\* left or the process killed meanwhile).
C5_DrainNeverBlocks ==
    \A h \in Handlers :
        ("drain" \in htimeout[h])
            ~> (hpc[h] \in {"term", "term_cw", "exit", "cancelled"}
                \/ ~LoopRunning)

\* C6: once the terminate budget has elapsed in a shutdown sequence, that
\* sequence logs the error and reaches sys.exit (unless it is itself
\* cancelled, the loop has been left or the process killed meanwhile).
C6_TerminateNeverBlocks ==
    \A h \in Handlers :
        ("terminate" \in htimeout[h])
            ~> ((hpc[h] = "exit" /\ errLogged) \/ hpc[h] = "cancelled"
                \/ ~LoopRunning)

\* C7: with the credential missing after the settings were read, nothing is
\* started (no flask thread, no client, no task, no shutdown_handler) and
\* main() is left by sys.exit(1).
C7_MissingTokenExitsOne ==
    (settingsRead /\ ~cli_flags.discord_token) =>
        /\ pc \in {"check_token", "exited"}
        /\ flask = "none"
        /\ ~botBuilt
        /\ \A t \in PlainTasks : tstate[t] = "none"
        /\ \A h \in Handlers : hpc[h] = "none"
        /\ entries = 0 /\ closeCalls = 0
        /\ (pc = "exited" => (mainExc = "SystemExit" /\ exitCode = << 1 >>
                              /\ exitFrom = "main"))
C7_Witness ==
    /\ settingsRead /\ ~cli_flags.discord_token
    /\ pc = "exited" /\ exitCode = << 1 >> /\ proc = "terminated"

\* C8: while the flask thread serves and the process lives, a request can
\* be answered whatever the state of the loop, the client task and the
\* shutdown sequences; no step of theirs stops the thread, and answering a
\* request changes nothing of the loop or of main().
C8_HealthIsolated ==
    /\ []((flask = "serving" /\ proc = "alive") => ENABLED home)
    /\ [][/\ (flask = "serving" /\ proc' = "alive") => flask' = "serving"
          /\ home => UNCHANGED << loopVars, mainVars >>]_vars
C8_Witness ==
    /\ flask = "serving" /\ served
    /\ tstate["bot"] # "run"
    /\ \E h \in Handlers : hpc[h] = "drain_cw" /\ hreason[h] = "timeout"

\* C9: after an interrupt or termination signal reached the running
\* client, the process does not end before shutdown_handler was entered with
\* a signal origin and bot.close() was begun.
C9_SignalsRouted ==
    (SignalSeen /\ (MainLeft \/ proc # "alive")) =>
        /\ closeCalls >= 1
        /\ \E h \in Handlers : Entered(h) /\ hsig[h] # None

\* C10: the code a shutdown_handler passes to sys.exit is a function of its
\* origin (signal_type) alone: 1 without a signal type, 0 with one, whether
\* or not the drain and terminate budgets were exceeded.
C10_ExitCodeByOrigin ==
    \A h \in Handlers :
        hpc[h] = "exit" =>
            /\ hcode[h] = IF hsig[h] = None THEN << 1 >> ELSE << 0 >>
            /\ exitCode \in {hcode[g] : g \in Handlers}
C10_Witness ==
    /\ hpc["S1"] = "exit" /\ htimeout["S1"] = {"drain", "terminate"}
    /\ hpc["S2"] = "exit" /\ htimeout["S2"] = {}
    /\ hcode["S1"] = hcode["S2"]

\* C11: with --version or --reset-settings given, main() is left by
\* sys.exit(0) before anything is started: the settings are not read, the
\* token is not checked, and no flask thread, client, task or
\* shutdown_handler ever exists.
C11_EarlyExitsZero ==
    (cli_flags.version \/ cli_flags.reset_settings) =>
        /\ pc \in {"check_version", "check_reset", "exited"}
        /\ ~settingsRead
        /\ flask = "none"
        /\ ~botBuilt
        /\ \A t \in PlainTasks : tstate[t] = "none"
        /\ \A h \in Handlers : hpc[h] = "none"
        /\ entries = 0 /\ closeCalls = 0
        /\ (pc = "exited" => (mainExc = "SystemExit" /\ exitCode = << 0 >>
                              /\ exitFrom = "main"))
C11_Witness ==
    /\ cli_flags.reset_settings /\ ~cli_flags.version
    /\ ~cli_flags.discord_token
    /\ pc = "exited" /\ exitCode = << 0 >> /\ proc = "terminated"

\* C12: an exception reported to the loop exception handler is only
\* logged: the step in which an auxiliary task fails and the step of
\* global_exception_handler leave main(), the loop, the main task, every
\* other task and the shutdown sequences as they are; a shutdown task made
\* by the completion callback exists only after the main task itself failed.
C12_AsyncErrorsOnlyLogged ==
    /\ [][/\ (excReport' # excReport /\ excReport' \subseteq excReport) =>
                UNCHANGED << mainVars, proc, tstate, tresult, cancelReq,
                             cbPending, handlerVars >>
          /\ \A a \in Aux :
                (tresult[a] # "exception" /\ tresult'[a] = "exception") =>
                    /\ UNCHANGED << mainVars, proc, cancelReq, cbPending,
                                    handlerVars >>
                    /\ \A t \in PlainTasks \ {a} :
                          tstate'[t] = tstate[t] /\ tresult'[t] = tresult[t]]_vars
    /\ [](hpc["S1"] # "none" => BotFailed)
C12_Witness ==
    /\ critLogged /\ excReport = {}
    /\ \E a \in Aux : tresult[a] = "exception"
    /\ tstate["bot"] = "run" /\ pc = "run_forever"
    /\ \A h \in Handlers : hpc[h] = "none"

\* C13: the failure of run_flask to bind ends its thread only: the step
\* changes nothing of main(), of the loop or of the process, no shutdown
\* sequence is begun by it, and main() still constructs the client,
\* schedules its task and enters the loop.
C13_BindFailureNonFatal ==
    /\ [][(flask = "starting" /\ flask' = "failed") =>
              UNCHANGED << mainVars, loopVars, proc >>]_vars
    /\ []((flask = "failed" /\ proc = "alive" /\ pc = "setup")
              => ENABLED SetupLoop)
    /\ []((flask = "failed" /\ \E h \in Handlers : hpc[h] # "none")
              => (BotFailed \/ pc \in {"finally", "exited"}))
C13_Witness ==
    /\ flask = "failed" /\ proc = "alive"
    /\ botBuilt /\ tstate["bot"] = "run" /\ pc = "run_forever"
    /\ \A h \in Handlers : hpc[h] = "none"

\* C14: the phases of the shutdown are run through once and in order: a
\* sequence cancels the other tasks only when its wait for bot.close() is
\* over, it reaches sys.exit only from the wait for the cancelled tasks,
\* and once some sequence has cancelled the tasks or reached sys.exit,
\* bot.close() is not begun again.
C14_PhaseMonotonic ==
    [][/\ \A h \in Handlers :
            /\ (hpc[h] # "term" /\ hpc'[h] = "term") =>
                    (hpc[h] \in {"drain", "drain_cw"} /\ hclose'[h] # "none")
            /\ (hpc[h] # "exit" /\ hpc'[h] = "exit") =>
                    hpc[h] \in {"term", "term_cw"}
       /\ (\E h \in Handlers : hpc[h] \in {"term", "term_cw", "exit"}) =>
              closeCalls' = closeCalls]_vars

\* C15: the completion callback of the main task starts a shutdown exactly
\* when the task ended with an unexpected exception: after CancelledError,
\* SystemExit or KeyboardInterrupt (or a normal return) the callback step
\* changes nothing; after an exception it creates the one shutdown task S1,
\* without a signal type, and nothing else; S1 is created by no other step.
C15_CallbackEscalatesOnlyFailure ==
    [][/\ (cbPending /\ ~cbPending') =>
            IF tresult["bot"] = "exception"
               THEN /\ hpc["S1"] = "none" /\ hpc'["S1"] = "created"
                    /\ hsig'["S1"] = None
                    /\ hpc'["S2"] = hpc["S2"]
                    /\ UNCHANGED << mainVars, proc, tstate, tresult,
                                    cancelReq, hsig, entries, closeCalls >>
               ELSE UNCHANGED << mainVars, proc, tstate, tresult, cancelReq,
                                 handlerVars >>
       /\ (hpc["S1"] = "none" /\ hpc'["S1"] # "none") =>
              (cbPending /\ ~cbPending' /\ tresult["bot"] = "exception")]_vars
C15_Witness ==
    /\ tresult["bot"] \in {"SystemExit", "KeyboardInterrupt", "cancelled"}
    /\ ~cbPending /\ LoopRunning
    /\ hpc["S1"] = "none"

\* C16: when a shutdown sequence enters its terminating phase it requests
\* cancel for every unfinished task of the loop except its own task; its
\* own task is cancelled only by a step of the other sequence; and it
\* reaches sys.exit only when all those tasks have finished or the terminate
\* budget has elapsed.
C16_CancelsAllButSelf ==
    /\ [][\A h \in Handlers :
            /\ (hpc[h] # "term" /\ hpc'[h] = "term") =>
                  /\ hpending'[h] = all_tasks \ {h}
                  /\ hpending'[h] \subseteq cancelReq'
                  /\ h \notin cancelReq'
            /\ (h \notin cancelReq /\ h \in cancelReq') =>
                  \E g \in Handlers \ {h} :
                      /\ hpc'[g] \in {"term", "term_cw"} /\ hpc'[g] # hpc[g]
                      /\ h \in hpending'[g]]_vars
    /\ [](\A h \in Handlers :
            hpc[h] = "exit" => (GatherDone(h) \/ "terminate" \in htimeout[h]))
C16_Witness ==
    \E h \in Handlers :
        /\ hpc[h] = "exit" /\ htimeout[h] = {}
        /\ "bot" \in hpending[h] /\ Aux \cap hpending[h] # {}
        /\ \A t \in hpending[h] \cap PlainTasks : tresult[t] = "cancelled"

\* C17: whatever became of bot.close() in a shutdown sequence (it returned,
\* it raised, or the drain budget elapsed), the sequence goes on to
\* sys.exit with the code of its origin (unless it is itself cancelled, the
\* loop has been left or the process killed meanwhile).
C17_CloseOutcomeIrrelevant ==
    \A h \in Handlers :
        (\/ tresult[CloseTask(h)] \in {"returned", "exception"}
         \/ "drain" \in htimeout[h])
            ~> (\/ hpc[h] = "exit" /\ hcode[h] = << ExitCodeFor(hsig[h]) >>
                \/ hpc[h] = "cancelled"
                \/ ~LoopRunning)

\* the part of C17 that is about the exception alone: every step that ends
\* the wait for bot.close() enters the cancelling of the other tasks, and a
\* sequence ends by sys.exit or by its own cancellation only
C17_CloseErrorContained ==
    [][\A h \in Handlers :
          /\ (hpc[h] \in {"drain", "drain_cw"} /\ hpc'[h] # hpc[h]) =>
                hpc'[h] \in {"drain_cw", "term"}
          /\ (hpc[h] \in Live /\ hpc'[h] \notin Live) =>
                \/ hpc'[h] = "exit" /\ hcode'[h] = << ExitCodeFor(hsig[h]) >>
                \/ hpc'[h] = "cancelled"]_vars

\* C18: after the main task returned normally, and as long as no signal
\* arrives, no shutdown sequence exists, main() stays in run_forever() with
\* no exit requested and the process lives; the callback step for the
\* returned task changes nothing.
C18_NormalReturnKeepsRunning ==
    /\ []((tresult["bot"] = "returned" /\ signals = {}) =>
            /\ pc = "run_forever" /\ proc = "alive"
            /\ \A h \in Handlers : hpc[h] = "none"
            /\ entries = 0 /\ closeCalls = 0
            /\ exitCode = NoCode /\ mainExc = "none")
    /\ [][(cbPending /\ ~cbPending' /\ tresult["bot"] = "returned") =>
              UNCHANGED << mainVars, proc, tstate, tresult, cancelReq,
                           handlerVars, sigVars >>]_vars
C18_Witness ==
    /\ tresult["bot"] = "returned" /\ ~cbPending /\ signals = {}
    /\ pc = "run_forever" /\ proc = "alive"
    /\ \A h \in Handlers : hpc[h] = "none"

\* both shutdown sequences are in progress: the one made by
\* bot_exception_handler and the one of the 'finally' clause of main()
Overlap == hpc["S1"] \in Live /\ hpc["S2"] \in Live

\* C19: when the two shutdown sequences overlap, with every step that can
\* be taken (budgets included) eventually taken, main() leaves the event
\* loop (or the process is killed).
C19_OverlapEnds == Overlap ~> ~LoopRunning

\* C19 for the runs in which no coroutine suppresses CancelledError
C19_OverlapEndsWhenAcked == [](stubborn = {}) => C19_OverlapEnds

====
